---- MODULE Spec2Model ----
(***************************************************************************)
(* Model of XtractComments.py: extraction of PDF text-markup annotations   *)
(* into a plain-text review report, with the line of every annotation      *)
(* resolved from printed margin numbers or, failing that, from the rank of *)
(* the reconstructed body lines.                                           *)
(*                                                                         *)
(* Strings are sequences of one-character strings.  Real numbers are exact *)
(* fractions [num, den] with den > 0; coordinates are integers (points).   *)
(***************************************************************************)
EXTENDS Integers, Sequences, FiniteSets, TLC

VARIABLES
    pc,                 \* position of the run
    input_exists,       \* os.path.isfile(pdf_path)
    doc,                \* the opened document: a sequence of pages
    header_margin_cm,   \* configuration: header exclusion distance (cm)
    margin_frac,        \* configuration: left margin as a fraction of width
    page_index,         \* 0-based index of the page being processed
    annot_pos,          \* number of annotations already walked on the page
    line_numbers,       \* result of get_page_line_numbers for the page
    body_lines,         \* None, or result of get_page_body_lines for the page
    use_margin_numbers, \* bool(line_numbers)
    body_runs,          \* calls of get_page_body_lines made for the page
    cur_annot,          \* the annotation last visited by the walk, or None
    annot_type,         \* locals of the last processed annotation
    highlighted_text,
    comment,
    line_number,
    entry,
    lines_out,          \* the accumulating report lines
    file,               \* the output path: None (no file) or Some(lines)
    file0,              \* the output path before the run
    written             \* lines of lines_out already written to the file

vars == <<pc, input_exists, doc, header_margin_cm, margin_frac, page_index,
          annot_pos, line_numbers, body_lines, use_margin_numbers, body_runs,
          cur_annot, annot_type, highlighted_text, comment, line_number, entry,
          lines_out, file, file0, written>>

\* Optional values: None is the empty tuple, Some(x) the one-element tuple
None == <<>>
Some(x) == <<x>>

-----------------------------------------------------------------------------
(* Exact fractions *)

Rat(n, d) == [num |-> n, den |-> d]
RAdd(a, b) == Rat(a.num * b.den + b.num * a.den, a.den * b.den)
RSub(a, b) == Rat(a.num * b.den - b.num * a.den, a.den * b.den)
RMul(a, b) == Rat(a.num * b.num, a.den * b.den)
RDivInt(a, k) == Rat(a.num, a.den * k)
RAbs(a) == Rat(IF a.num < 0 THEN -a.num ELSE a.num, a.den)
RLt(a, b) == a.num * b.den < b.num * a.den
RLe(a, b) == a.num * b.den <= b.num * a.den
REq(a, b) == a.num * b.den = b.num * a.den
RMin(a, b) == IF RLe(a, b) THEN a ELSE b

-----------------------------------------------------------------------------
(* Python string primitives *)

Whitespace == {" ", "\n", "\r", "\t"}
DecimalDigits == {"0", "1", "2", "3", "4", "5", "6", "7", "8", "9"}
Sup2 == "sup2"       \* U+00B2: str.isdigit() is True, int() raises ValueError
DigitChars == DecimalDigits \cup {Sup2}

RECURSIVE LStrip(_)
LStrip(s) ==
    IF s = <<>> THEN <<>>
    ELSE IF Head(s) \in Whitespace THEN LStrip(Tail(s)) ELSE s

RECURSIVE RStrip(_)
RStrip(s) ==
    IF s = <<>> THEN <<>>
    ELSE IF s[Len(s)] \in Whitespace THEN RStrip(SubSeq(s, 1, Len(s) - 1)) ELSE s

\* str.strip()
Strip(s) == RStrip(LStrip(s))

\* str.replace(old, new) for one-character old and new
Replace(s, old, new) == [i \in 1..Len(s) |-> IF s[i] = old THEN new ELSE s[i]]

\* str.split(): the maximal runs of non-whitespace characters
RECURSIVE Split(_, _)
Split(s, cur) ==
    IF s = <<>> THEN (IF cur = <<>> THEN <<>> ELSE <<cur>>)
    ELSE IF Head(s) \in Whitespace
         THEN (IF cur = <<>> THEN <<>> ELSE <<cur>>) \o Split(Tail(s), <<>>)
         ELSE Split(Tail(s), Append(cur, Head(s)))

\* " ".join(parts)
RECURSIVE JoinSpace(_)
JoinSpace(parts) ==
    IF parts = <<>> THEN <<>>
    ELSE IF Len(parts) = 1 THEN parts[1]
    ELSE parts[1] \o <<" ">> \o JoinSpace(Tail(parts))

\* "".join(parts)
RECURSIVE Concat(_)
Concat(parts) ==
    IF parts = <<>> THEN <<>> ELSE Head(parts) \o Concat(Tail(parts))

\* str.isdigit()
IsDigit(s) == s # <<>> /\ \A i \in 1..Len(s) : s[i] \in DigitChars

DigitValue(c) ==
    CASE c = "0" -> 0 [] c = "1" -> 1 [] c = "2" -> 2 [] c = "3" -> 3
      [] c = "4" -> 4 [] c = "5" -> 5 [] c = "6" -> 6 [] c = "7" -> 7
      [] c = "8" -> 8 [] c = "9" -> 9

\* int(txt): Some(value), or None where int() raises ValueError
RECURSIVE IntOfDigits(_, _)
IntOfDigits(s, acc) ==
    IF s = <<>> THEN acc ELSE IntOfDigits(Tail(s), 10 * acc + DigitValue(Head(s)))

ParseInt(s) ==
    IF s # <<>> /\ \A i \in 1..Len(s) : s[i] \in DecimalDigits
    THEN Some(IntOfDigits(s, 0)) ELSE None

DigitChar(d) ==
    CASE d = 0 -> "0" [] d = 1 -> "1" [] d = 2 -> "2" [] d = 3 -> "3"
      [] d = 4 -> "4" [] d = 5 -> "5" [] d = 6 -> "6" [] d = 7 -> "7"
      [] d = 8 -> "8" [] d = 9 -> "9"

\* str(n) / f"{n}" for an int n >= 0
RECURSIVE IntToStr(_)
IntToStr(n) ==
    IF n < 10 THEN <<DigitChar(n)>> ELSE IntToStr(n \div 10) \o <<DigitChar(n % 10)>>

-----------------------------------------------------------------------------
(* Geometry *)

CM_TO_PT == Rat(7200, 254)

Rect(x0, y0, x1, y1) == [x0 |-> x0, y0 |-> y0, x1 |-> x1, y1 |-> y1]

\* (rect.y0 + rect.y1) / 2.0
VCenter(r) == Rat(r.y0 + r.y1, 2)

\* page_rect.y0 + header_margin_cm * CM_TO_PT
HeaderCutoffY(page, hm_cm) == RAdd(Rat(page.rect.y0, 1), RMul(hm_cm, CM_TO_PT))

\* page_rect.x0 + margin_frac * page_width
MarginX(page, mfrac) ==
    RAdd(Rat(page.rect.x0, 1), RMul(mfrac, Rat(page.rect.x1 - page.rect.x0, 1)))

-----------------------------------------------------------------------------
(* 1) PRIMARY: printed line numbers in the margin *)

\* the word filter without the header test
WordPasses_NoHeader(w, page, hm_cm, mfrac) ==
    /\ ~ RLt(MarginX(page, mfrac), Rat(w.x1, 1))
    /\ IsDigit(Strip(w.text))
    /\ ParseInt(Strip(w.text)) # None

\* the filter of the word loop: the (ln, y_center) appended for a word, if any
WordPasses(w, page, hm_cm, mfrac) ==
    /\ ~ RLt(MarginX(page, mfrac), Rat(w.x1, 1))
    /\ ~ RLt(Rat(w.y0, 1), HeaderCutoffY(page, hm_cm))
    /\ IsDigit(Strip(w.text))
    /\ ParseInt(Strip(w.text)) # None

LineCandidates(page, hm_cm, mfrac) ==
    LET ok == SelectSeq(page.words, LAMBDA w : WordPasses(w, page, hm_cm, mfrac))
    IN  [i \in 1..Len(ok) |->
            [ln |-> ParseInt(Strip(ok[i].text))[1], yc |-> VCenter(ok[i])]]

\* keys of by_number, in insertion order
RECURSIVE FirstOccurrences(_, _)
FirstOccurrences(cands, seen) ==
    IF cands = <<>> THEN <<>>
    ELSE IF Head(cands).ln \in seen THEN FirstOccurrences(Tail(cands), seen)
    ELSE <<Head(cands).ln>> \o FirstOccurrences(Tail(cands), seen \cup {Head(cands).ln})

RECURSIVE SumYNum(_)
SumYNum(ys) == IF ys = <<>> THEN 0 ELSE Head(ys).yc.num + SumYNum(Tail(ys))

\* sum(ylist) / len(ylist): every y_center is a fraction over 2
AvgY(cands, ln) ==
    LET ys == SelectSeq(cands, LAMBDA c : c.ln = ln)
    IN  RDivInt(Rat(SumYNum(ys), 2), Len(ys))

\* list.sort(key=y_center): stable
RECURSIVE InsertByY(_, _)
InsertByY(sorted, d) ==
    IF sorted = <<>> THEN <<d>>
    ELSE IF RLt(d.y_center, Head(sorted).y_center) THEN <<d>> \o sorted
    ELSE <<Head(sorted)>> \o InsertByY(Tail(sorted), d)

RECURSIVE SortByY(_, _)
SortByY(todo, sorted) ==
    IF todo = <<>> THEN sorted ELSE SortByY(Tail(todo), InsertByY(sorted, Head(todo)))

get_page_line_numbers(page, hm_cm, mfrac) ==
    LET cands == LineCandidates(page, hm_cm, mfrac)
        keys == FirstOccurrences(cands, {})
        result == [i \in 1..Len(keys) |->
                      [line_number |-> keys[i], y_center |-> AvgY(cands, keys[i])]]
    IN  IF cands = <<>> THEN <<>> ELSE SortByY(result, <<>>)

\* the scan with "dist <= best_dist": the last of several nearest wins
RECURSIVE MarginScan_LastOnTie(_, _, _, _)
MarginScan_LastOnTie(lns, y_center, best_ln, best_dist) ==
    IF lns = <<>> THEN best_ln
    ELSE LET dist == RAbs(RSub(y_center, Head(lns).y_center))
         IN  IF best_dist = None \/ RLe(dist, best_dist[1])
             THEN MarginScan_LastOnTie(Tail(lns), y_center,
                                       Some(Head(lns).line_number), Some(dist))
             ELSE MarginScan_LastOnTie(Tail(lns), y_center, best_ln, best_dist)

RECURSIVE MarginScan(_, _, _, _)
MarginScan(lns, y_center, best_ln, best_dist) ==
    IF lns = <<>> THEN best_ln
    ELSE LET dist == RAbs(RSub(y_center, Head(lns).y_center))
         IN  IF best_dist = None \/ RLt(dist, best_dist[1])
             THEN MarginScan(Tail(lns), y_center, Some(Head(lns).line_number), Some(dist))
             ELSE MarginScan(Tail(lns), y_center, best_ln, best_dist)

get_line_number_for_annotation_from_margin(annot, lns) ==
    IF lns = <<>> THEN None
    ELSE MarginScan(lns, VCenter(annot.rect), None, None)

-----------------------------------------------------------------------------
(* 2) FALLBACK: rank of the body lines when no printed numbers exist *)

RECURSIVE MinOf(_)
MinOf(xs) ==
    IF Len(xs) = 1 THEN xs[1]
    ELSE LET m == MinOf(Tail(xs)) IN IF Head(xs) <= m THEN Head(xs) ELSE m

RECURSIVE MaxOf(_)
MaxOf(xs) ==
    IF Len(xs) = 1 THEN xs[1]
    ELSE LET m == MaxOf(Tail(xs)) IN IF Head(xs) >= m THEN Head(xs) ELSE m

\* the bbox of a line: its own, else the union of the bboxes its spans have
LineBBox(line) ==
    IF line.bbox = None /\ line.spans # <<>>
    THEN LET sb == SelectSeq(line.spans, LAMBDA sp : sp.bbox # None)
         IN  IF sb = <<>> THEN None
             ELSE Some(Rect(MinOf([i \in 1..Len(sb) |-> sb[i].bbox[1].x0]),
                            MinOf([i \in 1..Len(sb) |-> sb[i].bbox[1].y0]),
                            MaxOf([i \in 1..Len(sb) |-> sb[i].bbox[1].x1]),
                            MaxOf([i \in 1..Len(sb) |-> sb[i].bbox[1].y1])))
    ELSE line.bbox

\* "".join(span texts).strip()
LineText(line) == Strip(Concat([i \in 1..Len(line.spans) |-> line.spans[i].text]))

\* one iteration of the line loop: None (continue) or Some(raw line)
RawLine(line) ==
    IF LineText(line) = <<>> THEN None
    ELSE IF LineBBox(line) = None THEN None
    ELSE LET b == LineBBox(line)[1]
         IN  Some([rect |-> b, text |-> LineText(line), y0 |-> b.y0, x0 |-> b.x0])

\* the lines of all blocks, in block order then line order
RECURSIVE FlattenBlocks(_)
FlattenBlocks(blocks) ==
    IF blocks = <<>> THEN <<>>
    ELSE Head(blocks).lines \o FlattenBlocks(Tail(blocks))

RECURSIVE RawLines(_)
RawLines(ls) ==
    IF ls = <<>> THEN <<>> ELSE RawLine(Head(ls)) \o RawLines(Tail(ls))

\* the tuple comparison (y0, x0) < (y0', x0')
KeyLess(a, b) == a.y0 < b.y0 \/ (a.y0 = b.y0 /\ a.x0 < b.x0)

\* raw_lines.sort(key=(y0, x0)): stable
RECURSIVE InsertByKey(_, _)
InsertByKey(sorted, d) ==
    IF sorted = <<>> THEN <<d>>
    ELSE IF KeyLess(d, Head(sorted)) THEN <<d>> \o sorted
    ELSE <<Head(sorted)>> \o InsertByKey(Tail(sorted), d)

RECURSIVE SortByKey(_, _)
SortByKey(todo, sorted) ==
    IF todo = <<>> THEN sorted
    ELSE SortByKey(Tail(todo), InsertByKey(sorted, Head(todo)))

\* d["rect"].y0 >= header_cutoff_y
IsBodyCandidate(d, page, hm_cm) == ~ RLt(Rat(d.rect.y0, 1), HeaderCutoffY(page, hm_cm))

\* the index taken from the rank among all lines, header lines included
get_page_body_lines_IndexBeforeFilter(page, hm_cm) ==
    LET raw_lines == SortByKey(RawLines(FlattenBlocks(page.text_dict.blocks)), <<>>)
        ranked == [i \in 1..Len(raw_lines) |->
                      [index |-> i, rect |-> raw_lines[i].rect,
                       text |-> raw_lines[i].text]]
    IN  SelectSeq(ranked, LAMBDA d : IsBodyCandidate(d, page, hm_cm))

get_page_body_lines(page, hm_cm) ==
    LET raw_lines == SortByKey(RawLines(FlattenBlocks(page.text_dict.blocks)), <<>>)
        body_candidates == SelectSeq(raw_lines, LAMBDA d : IsBodyCandidate(d, page, hm_cm))
    IN  [i \in 1..Len(body_candidates) |->
            [index |-> i, rect |-> body_candidates[i].rect,
             text |-> body_candidates[i].text]]

\* ly0 <= y_center <= ly1
Contains(line, y_center) ==
    /\ RLe(Rat(line.rect.y0, 1), y_center)
    /\ RLe(y_center, Rat(line.rect.y1, 1))

\* min(abs(y_center - ly0), abs(y_center - ly1))
EdgeDist(line, y_center) ==
    RMin(RAbs(RSub(y_center, Rat(line.rect.y0, 1))),
         RAbs(RSub(y_center, Rat(line.rect.y1, 1))))

\* the scan without the containment test: nearest edge only
RECURSIVE FallbackScan_NoContainment(_, _, _, _)
FallbackScan_NoContainment(ls, y_center, best_line_index, best_dist) ==
    IF ls = <<>> THEN best_line_index
    ELSE LET dist == EdgeDist(Head(ls), y_center)
         IN  IF best_dist = None \/ RLt(dist, best_dist[1])
             THEN FallbackScan_NoContainment(Tail(ls), y_center,
                                             Some(Head(ls).index), Some(dist))
             ELSE FallbackScan_NoContainment(Tail(ls), y_center,
                                             best_line_index, best_dist)

RECURSIVE FallbackScan(_, _, _, _)
FallbackScan(ls, y_center, best_line_index, best_dist) ==
    IF ls = <<>> THEN best_line_index
    ELSE IF Contains(Head(ls), y_center) THEN Some(Head(ls).index)
    ELSE LET dist == EdgeDist(Head(ls), y_center)
         IN  IF best_dist = None \/ RLt(dist, best_dist[1])
             THEN FallbackScan(Tail(ls), y_center, Some(Head(ls).index), Some(dist))
             ELSE FallbackScan(Tail(ls), y_center, best_line_index, best_dist)

get_fallback_line_index_for_annotation(annot, page_lines) ==
    IF page_lines = <<>> THEN None
    ELSE FallbackScan(page_lines, VCenter(annot.rect), None, None)

-----------------------------------------------------------------------------
(* 3) Annotation text, normalisation and formatting *)

\* the characters of the literals of the report
Lit_Title == <<"C","o","m","m","e","n","t","s"," ","t","o"," ","t","h","e"," ",
               "A","u","t","h","o","r">>
Lit_Page == <<"P","a","g","e"," ">>
Lit_Line == <<","," ","l","i","n","e"," ">>
Lit_Substitute == <<":"," ","s","u","b","s","t","i","t","u","t","e"," ">>
Lit_For == <<" ","f","o","r"," ","\"">>
Lit_StrikeOut == <<":"," ","s","t","r","i","k","e"," ","o","u","t"," ">>
Lit_Error == <<"[","E","R","R","O","R"," ","e","x","t","r","a","c","t","i","n","g",
               " ","t","e","x","t",":"," ">>
Lit_Open == <<"\"",".",".",".">>
Lit_Close == <<".",".",".","\"">>

sanitize_quotes(text) ==
    IF text = None THEN <<>> ELSE Strip(Replace(text[1], "\"", "'"))

\* the wrapper applied to the empty text too
with_ellipsis_Always(text) == Lit_Open \o Strip(text) \o Lit_Close

with_ellipsis(text) ==
    LET t == Strip(text)
    IN  IF t = <<>> THEN t ELSE Lit_Open \o t \o Lit_Close

\* a failed extraction swallowed as the empty text
ExtractedText_Swallow(annot) ==
    IF annot.covered.ok THEN Strip(annot.covered.text) ELSE <<>>

\* page.get_text("text", clip=rect).strip(), or the exception it raises:
\* annot.covered is [ok |-> TRUE, text |-> s] or [ok |-> FALSE, reason |-> s]
ExtractedText(annot) ==
    IF annot.covered.ok THEN Strip(annot.covered.text)
    ELSE Lit_Error \o annot.covered.reason \o <<"]">>

\* replace CR and LF by spaces, collapse whitespace, sanitize quotes
NormalizedText(annot) ==
    LET t1 == Replace(Replace(ExtractedText(annot), "\r", " "), "\n", " ")
        t2 == JoinSpace(Split(t1, <<>>))
    IN  sanitize_quotes(Some(t2))

\* info.get("content", "") or "", sanitized; annot.content is None or Some(s)
SanitizedComment(annot) ==
    sanitize_quotes(Some(IF annot.content = None THEN <<>> ELSE annot.content[1]))

\* str.lower() of the annotation type names
Lower(name) ==
    CASE name = "Highlight" -> "highlight"
      [] name = "Underline" -> "underline"
      [] name = "Squiggly"  -> "squiggly"
      [] name = "StrikeOut" -> "strikeout"
      [] name = "Text"      -> "text"
      [] name = "FreeText"  -> "freetext"

\* the handled kinds without strikeout
MarkupTypes_NoStrikeOut == {"highlight", "underline", "squiggly"}

MarkupTypes == {"highlight", "underline", "squiggly", "strikeout"}

IsMarkup(annot) == Lower(annot.type) \in MarkupTypes

\* line_number if line_number is not None else "", as rendered by the f-string
LineDisplay(ln) == IF ln = None THEN <<>> ELSE IntToStr(ln[1])

FormatEntry(atype, page_number, ln, highlighted_display, cmt) ==
    IF atype = "strikeout"
    THEN IF cmt # <<>>
         THEN Lit_Page \o IntToStr(page_number) \o Lit_Line \o LineDisplay(ln)
              \o Lit_Substitute \o highlighted_display \o Lit_For \o cmt \o <<"\"">>
         ELSE Lit_Page \o IntToStr(page_number) \o Lit_Line \o LineDisplay(ln)
              \o Lit_StrikeOut \o highlighted_display
    ELSE Lit_Page \o IntToStr(page_number) \o Lit_Line \o LineDisplay(ln)
         \o <<",", " ">> \o highlighted_display \o <<":", " ">> \o cmt

-----------------------------------------------------------------------------
(* Inputs of the run *)

MaxPages == 2        \* pages of a document
MaxAnnots == 2       \* annotations of a document, over all its pages

SeqsUpTo(S, n) == UNION {[1..k -> S] : k \in 0..n}

\* the nondecreasing maps of 1..n into 1..b: which group each item belongs to
Owners(n, b) ==
    {o \in [1..n -> 1..b] : \A i \in 1..n, j \in 1..n : i <= j => o[i] <= o[j]}

\* the items owned by group g, in order
GroupOf(items, o, g) ==
    SubSeq(items, Cardinality({j \in 1..Len(items) : o[j] < g}) + 1,
                  Cardinality({j \in 1..Len(items) : o[j] <= g}))

Str_Some == <<"S","o","m","e">>
Str_Claim == <<"C","l","a","i","m">>

Word(x0, y0, x1, y1, text) ==
    [x0 |-> x0, y0 |-> y0, x1 |-> x1, y1 |-> y1, text |-> text]
Span(text, bbox) == [text |-> text, bbox |-> bbox]
TextLine(bbox, spans) == [bbox |-> bbox, spans |-> spans]
Block(ls) == [lines |-> ls]

PageRect == Rect(0, 0, 600, 800)

\* a page whose origin is not (0, 0)
ShiftedPageRect == Rect(10, 1, 610, 801)

\* a page with printed numbers 42 and 7 in the margin and a folio in the header
NumberedLayout ==
    [rect |-> PageRect,
     words |-> <<Word(20, 20, 40, 30, <<"3">>),
                 Word(60, 95, 80, 105, <<"4","2">>),
                 Word(100, 95, 150, 105, Str_Some),
                 Word(60, 195, 80, 205, <<"7">>)>>,
     text_dict |-> [blocks |-> <<
        Block(<<TextLine(Some(Rect(60, 95, 150, 105)),
                         <<Span(<<"4","2"," ">> \o Str_Some, None)>>),
                TextLine(Some(Rect(60, 195, 80, 205)),
                         <<Span(<<"7">>, None)>>)>>)>>]]

\* a page without margin numbers: a folio in the header band, a number in the
\* body, two lines given out of order
PlainLayout ==
    [rect |-> PageRect,
     words |-> <<Word(20, 20, 40, 30, <<"3">>),
                 Word(100, 95, 150, 105, Str_Some),
                 Word(300, 195, 320, 205, <<"1","2">>)>>,
     text_dict |-> [blocks |-> <<
        Block(<<TextLine(Some(Rect(20, 20, 40, 30)), <<Span(<<"3">>, None)>>)>>),
        Block(<<TextLine(Some(Rect(300, 195, 320, 205)), <<Span(<<"1","2">>, None)>>),
                TextLine(None,
                         <<Span(Str_Some, Some(Rect(100, 95, 150, 105)))>>)>>)>>]]

Layouts == {NumberedLayout, PlainLayout}

Covered(text) == [ok |-> TRUE, text |-> text]
Failed(reason) == [ok |-> FALSE, reason |-> reason]
Annot(type, rect, covered, content) ==
    [type |-> type, rect |-> rect, covered |-> covered, content |-> content]

AnnotSamples ==
    { Annot("Highlight", Rect(100, 96, 210, 106),
            Covered(Str_Some \o <<"\n">> \o Str_Claim), Some(<<"o","k","?">>)),
      Annot("StrikeOut", Rect(100, 190, 170, 200),
            Failed(<<"b","a","d">>), Some(<<"b","a","z">>)),
      Annot("Text", Rect(300, 400, 320, 420), Covered(<<>>), Some(<<"n">>)) }

\* a document: pages of the given layouts, each annotation on one page
DocOf(lay, as, o) ==
    [p \in 1..Len(lay) |->
        [rect |-> lay[p].rect, words |-> lay[p].words,
         text_dict |-> lay[p].text_dict, annots |-> GroupOf(as, o, p)]]

-----------------------------------------------------------------------------
(* 4) The run: extract_annotations_to_txt under main() *)

\* the body of the annotation loop for one annotation; ln is the resolved line
HandleAnnot(a, page_number, ln) ==
    /\ cur_annot' = Some(a)
    /\ annot_type' = Lower(a.type)
    /\ IF IsMarkup(a)
       THEN /\ highlighted_text' = NormalizedText(a)
            /\ comment' = SanitizedComment(a)
            /\ line_number' = ln
            /\ entry' = FormatEntry(Lower(a.type), page_number, ln,
                                    with_ellipsis(NormalizedText(a)),
                                    SanitizedComment(a))
            /\ lines_out' = Append(lines_out, entry')
       ELSE UNCHANGED <<highlighted_text, comment, line_number, entry, lines_out>>

\* the line resolution of the annotation loop
ResolveLine(a, use_margin, lns, blines) ==
    IF use_margin
    THEN get_line_number_for_annotation_from_margin(a, lns)
    ELSE get_fallback_line_index_for_annotation(a, blines[1])

CurrentPage == doc[1][page_index + 1]
NumPages == Len(doc[1])

\* os.path.isfile(pdf_path) fails: FileNotFoundError, reported by main(), exit 1
InputMissing ==
    /\ pc = "start"
    /\ ~ input_exists
    /\ pc' = "failed"
    /\ UNCHANGED <<input_exists, doc, header_margin_cm, margin_frac, page_index,
                   annot_pos, line_numbers, body_lines, use_margin_numbers,
                   body_runs, cur_annot, annot_type, highlighted_text, comment,
                   line_number, entry, lines_out, file, file0, written>>

\* fitz.open(pdf_path), then the two header lines
OpenDoc ==
    /\ pc = "start"
    /\ input_exists
    /\ \E n \in 0..MaxPages :
         \E lay \in [1..n -> Layouts] :
           \E as \in (IF n = 0 THEN {<<>>} ELSE SeqsUpTo(AnnotSamples, MaxAnnots)) :
             \E o \in Owners(Len(as), n) :
               doc' = Some(DocOf(lay, as, o))
    /\ lines_out' = <<Lit_Title, <<>>>>
    /\ page_index' = 0
    /\ pc' = "page"
    /\ UNCHANGED <<input_exists, header_margin_cm, margin_frac, annot_pos,
                   line_numbers, body_lines, use_margin_numbers, body_runs,
                   cur_annot, annot_type, highlighted_text, comment, line_number,
                   entry, file, file0, written>>

\* fitz.open(pdf_path) raises (not a readable document)
OpenDocFails ==
    /\ pc = "start"
    /\ input_exists
    /\ pc' = "failed"
    /\ UNCHANGED <<input_exists, doc, header_margin_cm, margin_frac, page_index,
                   annot_pos, line_numbers, body_lines, use_margin_numbers,
                   body_runs, cur_annot, annot_type, highlighted_text, comment,
                   line_number, entry, lines_out, file, file0, written>>

\* the page loop with use_margin_numbers kept from the previous page
StartPage_Sticky ==
    /\ pc = "page"
    /\ page_index < NumPages
    /\ LET lns == get_page_line_numbers(CurrentPage, header_margin_cm, margin_frac)
       IN  /\ line_numbers' = lns
           /\ use_margin_numbers' = (use_margin_numbers \/ lns # <<>>)
           /\ IF use_margin_numbers \/ lns # <<>>
              THEN /\ body_lines' = None
                   /\ body_runs' = 0
              ELSE /\ body_lines' = Some(get_page_body_lines(CurrentPage, header_margin_cm))
                   /\ body_runs' = 1
    /\ annot_pos' = 0
    /\ cur_annot' = None
    /\ pc' = "annot"
    /\ UNCHANGED <<input_exists, doc, header_margin_cm, margin_frac, page_index,
                   annot_type, highlighted_text, comment, line_number, entry,
                   lines_out, file, file0, written>>

\* top of the page loop: margin detection, fallback lines only if needed
StartPage ==
    /\ pc = "page"
    /\ page_index < NumPages
    /\ LET lns == get_page_line_numbers(CurrentPage, header_margin_cm, margin_frac)
       IN  /\ line_numbers' = lns
           /\ use_margin_numbers' = (lns # <<>>)
           /\ IF lns # <<>>
              THEN /\ body_lines' = None
                   /\ body_runs' = 0
              ELSE /\ body_lines' = Some(get_page_body_lines(CurrentPage, header_margin_cm))
                   /\ body_runs' = 1
    /\ annot_pos' = 0
    /\ cur_annot' = None
    /\ pc' = "annot"
    /\ UNCHANGED <<input_exists, doc, header_margin_cm, margin_frac, page_index,
                   annot_type, highlighted_text, comment, line_number, entry,
                   lines_out, file, file0, written>>

\* page.get_text raises while the page is read: the run aborts in main()
PageFails ==
    /\ pc = "page"
    /\ page_index < NumPages
    /\ pc' = "failed"
    /\ UNCHANGED <<input_exists, doc, header_margin_cm, margin_frac, page_index,
                   annot_pos, line_numbers, body_lines, use_margin_numbers,
                   body_runs, cur_annot, annot_type, highlighted_text, comment,
                   line_number, entry, lines_out, file, file0, written>>

\* one iteration of "while annot"
ProcessAnnot ==
    /\ pc = "annot"
    /\ annot_pos < Len(CurrentPage.annots)
    /\ LET a == CurrentPage.annots[annot_pos + 1]
       IN  HandleAnnot(a, page_index + 1,
                       ResolveLine(a, use_margin_numbers, line_numbers, body_lines))
    /\ annot_pos' = annot_pos + 1
    /\ UNCHANGED <<pc, input_exists, doc, header_margin_cm, margin_frac, page_index,
                   line_numbers, body_lines, use_margin_numbers, body_runs,
                   file, file0, written>>

\* annot.next is None: next page
EndPage ==
    /\ pc = "annot"
    /\ annot_pos = Len(CurrentPage.annots)
    /\ page_index' = page_index + 1
    /\ pc' = "page"
    /\ UNCHANGED <<input_exists, doc, header_margin_cm, margin_frac, annot_pos,
                   line_numbers, body_lines, use_margin_numbers, body_runs,
                   cur_annot, annot_type, highlighted_text, comment, line_number,
                   entry, lines_out, file, file0, written>>

\* open(output_txt, "w"): creates or truncates the file
OpenOutput ==
    /\ pc = "page"
    /\ page_index = NumPages
    /\ file' = Some(<<>>)
    /\ written' = 0
    /\ pc' = "write"
    /\ UNCHANGED <<input_exists, doc, header_margin_cm, margin_frac, page_index,
                   annot_pos, line_numbers, body_lines, use_margin_numbers,
                   body_runs, cur_annot, annot_type, highlighted_text, comment,
                   line_number, entry, lines_out, file0>>

\* open(output_txt, "w") raises (no permission, no such directory)
OpenOutputFails ==
    /\ pc = "page"
    /\ page_index = NumPages
    /\ pc' = "failed"
    /\ UNCHANGED <<input_exists, doc, header_margin_cm, margin_frac, page_index,
                   annot_pos, line_numbers, body_lines, use_margin_numbers,
                   body_runs, cur_annot, annot_type, highlighted_text, comment,
                   line_number, entry, lines_out, file, file0, written>>

\* f.write(line + "\n") for the next line of lines_out
WriteLine ==
    /\ pc = "write"
    /\ written < Len(lines_out)
    /\ file' = Some(file[1] \o lines_out[written + 1] \o <<"\n">>)
    /\ written' = written + 1
    /\ UNCHANGED <<pc, input_exists, doc, header_margin_cm, margin_frac, page_index,
                   annot_pos, line_numbers, body_lines, use_margin_numbers,
                   body_runs, cur_annot, annot_type, highlighted_text, comment,
                   line_number, entry, lines_out, file0>>

\* f.write raises (disk full, I/O error): the file keeps what was written
WriteFails ==
    /\ pc = "write"
    /\ written < Len(lines_out)
    /\ pc' = "failed"
    /\ UNCHANGED <<input_exists, doc, header_margin_cm, margin_frac, page_index,
                   annot_pos, line_numbers, body_lines, use_margin_numbers,
                   body_runs, cur_annot, annot_type, highlighted_text, comment,
                   line_number, entry, lines_out, file, file0, written>>

\* the file is closed; main() reports the output location
Finish ==
    /\ pc = "write"
    /\ written = Len(lines_out)
    /\ pc' = "done"
    /\ UNCHANGED <<input_exists, doc, header_margin_cm, margin_frac, page_index,
                   annot_pos, line_numbers, body_lines, use_margin_numbers,
                   body_runs, cur_annot, annot_type, highlighted_text, comment,
                   line_number, entry, lines_out, file, file0, written>>

DefaultHeaderMarginCm == Rat(15, 10)
DefaultMarginFrac == Rat(15, 100)
OldFile == Some(<<"o","l","d","\n">>)

Init ==
    /\ pc = "start"
    /\ input_exists \in BOOLEAN
    /\ doc = None
    /\ header_margin_cm = DefaultHeaderMarginCm
    /\ margin_frac = DefaultMarginFrac
    /\ page_index = 0
    /\ annot_pos = 0
    /\ line_numbers = <<>>
    /\ body_lines = None
    /\ use_margin_numbers = FALSE
    /\ body_runs = 0
    /\ cur_annot = None
    /\ annot_type = ""
    /\ highlighted_text = <<>>
    /\ comment = <<>>
    /\ line_number = None
    /\ entry = <<>>
    /\ lines_out = <<>>
    /\ file0 \in {None, OldFile}
    /\ file = file0
    /\ written = 0

Next ==
    \/ InputMissing
    \/ OpenDoc
    \/ OpenDocFails
    \/ StartPage
    \/ PageFails
    \/ ProcessAnnot
    \/ EndPage
    \/ OpenOutput
    \/ OpenOutputFails
    \/ WriteLine
    \/ WriteFails
    \/ Finish

Spec == Init /\ [][Next]_vars

-----------------------------------------------------------------------------
(* Properties of the run *)

\* the annotation type names that are text markup
QualifyingKinds == {"Highlight", "Underline", "Squiggly", "StrikeOut"}

\* the annotations of page p (1-based) the walk has already visited
PageVisited(p) ==
    IF p < page_index + 1 THEN doc[1][p].annots
    ELSE IF p = page_index + 1 /\ pc = "annot"
         THEN SubSeq(doc[1][p].annots, 1, annot_pos)
         ELSE <<>>

RECURSIVE VisitedUpTo(_)
VisitedUpTo(p) ==
    IF p = 0 THEN <<>>
    ELSE VisitedUpTo(p - 1) \o
         [i \in 1..Len(PageVisited(p)) |-> [page |-> p, a |-> PageVisited(p)[i]]]

QualVisited ==
    SelectSeq(VisitedUpTo(NumPages), LAMBDA r : r.a.type \in QualifyingKinds)

\* the line of an annotation, from its own page only
LineFor(p, a) ==
    LET lns == get_page_line_numbers(doc[1][p], header_margin_cm, margin_frac)
    IN  IF lns # <<>>
        THEN get_line_number_for_annotation_from_margin(a, lns)
        ELSE get_fallback_line_index_for_annotation(
                 a, get_page_body_lines(doc[1][p], header_margin_cm))

ExpectedEntry(r) ==
    FormatEntry(Lower(r.a.type), r.page, LineFor(r.page, r.a),
                with_ellipsis(NormalizedText(r.a)), SanitizedComment(r.a))

RECURSIVE FileOf(_)
FileOf(ls) == IF ls = <<>> THEN <<>> ELSE Head(ls) \o <<"\n">> \o FileOf(Tail(ls))

\* C1: the report is the title line, a blank line, then exactly one entry per
\* visited highlight, underline, squiggly or strikeout annotation, in page order
\* and within a page in encounter order; other kinds add nothing; once the run
\* is done the file holds exactly these lines.
C1_ReportOrder ==
    doc # None =>
        /\ lines_out = <<Lit_Title, <<>>>> \o
                       [k \in 1..Len(QualVisited) |-> ExpectedEntry(QualVisited[k])]
        /\ pc = "done" => file = Some(FileOf(lines_out))

C1_Witness ==
    /\ pc = "done"
    /\ NumPages = 2
    /\ Len(doc[1][1].annots) = 1
    /\ Len(doc[1][2].annots) = 1
    /\ Len(lines_out) = 4
    /\ lines_out[3] # lines_out[4]

C1_WitnessOtherKind ==
    /\ pc = "done"
    /\ Len(VisitedUpTo(NumPages)) = 2
    /\ Len(lines_out) = 3

\* C2: the strategy is chosen per page from that page alone: with margin
\* numbers detected the body lines are never built and every annotation is
\* resolved from the margin numbers; otherwise the body lines are built once
\* and every annotation is resolved by the fallback.
C2_StrategyPerPage ==
    pc = "annot" =>
        LET lns == get_page_line_numbers(CurrentPage, header_margin_cm, margin_frac)
        IN  /\ line_numbers = lns
            /\ lns # <<>> =>
                  /\ use_margin_numbers
                  /\ body_lines = None
                  /\ body_runs = 0
            /\ lns = <<>> =>
                  /\ ~ use_margin_numbers
                  /\ body_lines = Some(get_page_body_lines(CurrentPage, header_margin_cm))
                  /\ body_runs = 1
            /\ (cur_annot # None /\ cur_annot[1].type \in QualifyingKinds) =>
                  line_number =
                     IF lns # <<>>
                     THEN get_line_number_for_annotation_from_margin(cur_annot[1], lns)
                     ELSE get_fallback_line_index_for_annotation(
                              cur_annot[1],
                              get_page_body_lines(CurrentPage, header_margin_cm))

\* a fallback page processed after a page with margin numbers
C2_Witness ==
    /\ pc = "annot"
    /\ page_index = 1
    /\ get_page_line_numbers(doc[1][1], header_margin_cm, margin_frac) # <<>>
    /\ Len(doc[1][1].annots) = 1
    /\ ~ use_margin_numbers
    /\ body_lines # None /\ body_lines[1] # <<>>
    /\ cur_annot # None /\ cur_annot[1].type \in QualifyingKinds
    /\ line_number # None

\* C4: when the run has ended, the output file holds the complete report or is
\* what it was before the run.
C4_NoPartialOutput ==
    pc \in {"done", "failed"} =>
        \/ file = file0
        \/ doc # None /\ file = Some(FileOf(lines_out))

\* C4, the part that holds: a missing input aborts before any page is
\* processed and before the output path is opened.
C4_MissingInputAborts ==
    ~ input_exists => (pc \in {"start", "failed"} /\ doc = None /\ file = file0)

IsPrefixOf(s, t) == Len(s) <= Len(t) /\ SubSeq(t, 1, Len(s)) = s

\* the "...<placeholder>..." segment of a failed extraction with this reason
PlaceholderDisplay(reason) ==
    <<"\"", ".", ".", ".", "[">> \o
    <<"E","R","R","O","R"," ","e","x","t","r","a","c","t","i","n","g"," ",
      "t","e","x","t",":"," ">> \o reason \o <<"]", ".", ".", ".", "\"">>

\* the characters of s from position i on
Suffix(s, i) == SubSeq(s, i, Len(s))

Occurs(sub, s) == \E i \in 1..(Len(s) + 1) : IsPrefixOf(sub, Suffix(s, i))

\* C9: an annotation whose text extraction fails still yields exactly one
\* entry at its own position, carrying the placeholder with the failure
\* reason, and the annotations after it yield their entries as usual.
C9_ExtractionFailureIsolated ==
    doc # None =>
        /\ Len(lines_out) = 2 + Len(QualVisited)
        /\ \A k \in 1..Len(QualVisited) :
              LET r == QualVisited[k]
              IN  IF r.a.covered.ok
                  THEN lines_out[2 + k] = ExpectedEntry(r)
                  ELSE /\ Occurs(PlaceholderDisplay(r.a.covered.reason), lines_out[2 + k])
                       /\ IsPrefixOf(Lit_Page \o IntToStr(r.page), lines_out[2 + k])

\* a failed extraction followed by another annotation, run completed
C9_Witness ==
    /\ pc = "done"
    /\ Len(QualVisited) = 2
    /\ ~ QualVisited[1].a.covered.ok
    /\ QualVisited[2].a.covered.ok
    /\ file = Some(FileOf(lines_out))

-----------------------------------------------------------------------------
(* Margin detection and margin-based resolution on one page *)

MaxWords == 3        \* words of a page

\* in the margin below the header; right of the margin; in the header band;
\* in the margin, lower on the page
WordBoxes ==
    { Rect(80, 44, 100, 54), Rect(81, 101, 101, 111),
      Rect(80, 43, 100, 53), Rect(80, 101, 100, 111) }

WordTexts == { <<"7">>, <<"0","7">>, <<"1","2">>, <<"a">>, <<Sup2>> }

WordSamples ==
    { Word(b.x0, b.y0, b.x1, b.y1, t) : b \in WordBoxes, t \in WordTexts }

\* annotation rectangles: on the upper number, halfway between the two
\* margin positions, far below both
MarginAnnotRects ==
    { Rect(100, 48, 200, 50), Rect(100, 70, 200, 85), Rect(100, 300, 200, 310) }

\* the values every specification starts from
Idle ==
    /\ input_exists = TRUE
    /\ header_margin_cm = DefaultHeaderMarginCm
    /\ margin_frac = DefaultMarginFrac
    /\ page_index = 0
    /\ annot_pos = 0
    /\ line_numbers = <<>>
    /\ body_lines = None
    /\ use_margin_numbers = FALSE
    /\ body_runs = 0
    /\ cur_annot = None
    /\ annot_type = ""
    /\ highlighted_text = <<>>
    /\ comment = <<>>
    /\ line_number = None
    /\ entry = <<>>
    /\ lines_out = <<>>
    /\ file0 = None
    /\ file = None
    /\ written = 0

InitMargin ==
    /\ pc = "margin_start"
    /\ \E ws \in SeqsUpTo(WordSamples, MaxWords) :
         doc = Some(<<[rect |-> ShiftedPageRect, words |-> ws,
                       text_dict |-> [blocks |-> <<>>], annots |-> <<>>]>>)
    /\ Idle

\* get_page_line_numbers applied to the page
MarginDetect ==
    /\ pc = "margin_start"
    /\ line_numbers' = get_page_line_numbers(CurrentPage, header_margin_cm, margin_frac)
    /\ use_margin_numbers' = (line_numbers' # <<>>)
    /\ pc' = "margin_detected"
    /\ UNCHANGED <<input_exists, doc, header_margin_cm, margin_frac, page_index,
                   annot_pos, body_lines, body_runs, cur_annot, annot_type,
                   highlighted_text, comment, line_number, entry, lines_out,
                   file, file0, written>>

\* get_line_number_for_annotation_from_margin applied to an annotation
MarginResolve ==
    /\ pc = "margin_detected"
    /\ \E r \in MarginAnnotRects :
         LET a == Annot("Highlight", r, Covered(<<>>), None)
         IN  /\ cur_annot' = Some(a)
             /\ line_number' = get_line_number_for_annotation_from_margin(a, line_numbers)
    /\ pc' = "margin_resolved"
    /\ UNCHANGED <<input_exists, doc, header_margin_cm, margin_frac, page_index,
                   annot_pos, line_numbers, body_lines, use_margin_numbers,
                   body_runs, annot_type, highlighted_text, comment, entry,
                   lines_out, file, file0, written>>

NextMargin == MarginDetect \/ MarginResolve

SpecMargin == InitMargin /\ [][NextMargin]_vars

\* |center of the annotation - y_center of the i-th detected number|
MarginDist(i) == RAbs(RSub(VCenter(cur_annot[1].rect), line_numbers[i].y_center))

\* C5: margin-based resolution returns the line number of a detected number at
\* minimum distance from the annotation's vertical center, the first such in
\* list order; it returns None only for the empty list.
C5_MarginNearest ==
    pc = "margin_resolved" =>
        IF line_numbers = <<>> THEN line_number = None
        ELSE \E i \in 1..Len(line_numbers) :
                /\ line_number = Some(line_numbers[i].line_number)
                /\ \A j \in 1..Len(line_numbers) : RLe(MarginDist(i), MarginDist(j))
                /\ \A j \in 1..(i - 1) : RLt(MarginDist(i), MarginDist(j))

\* two detected numbers at the same distance, on either side of the annotation
C5_Witness ==
    /\ pc = "margin_resolved"
    /\ Len(line_numbers) = 2
    /\ RLt(line_numbers[1].y_center, line_numbers[2].y_center)
    /\ REq(MarginDist(1), MarginDist(2))
    /\ line_number = Some(line_numbers[1].line_number)

\* the words that qualify: all decimal digits, right edge within the margin,
\* top edge at or below the header cutoff
AllDecimal(t) == t # <<>> /\ \A i \in 1..Len(t) : t[i] \in DecimalDigits

QualifyingWords ==
    LET page == CurrentPage
    IN  { i \in 1..Len(page.words) :
            /\ AllDecimal(page.words[i].text)
            /\ margin_frac.den * page.words[i].x1
                 <= margin_frac.den * page.rect.x0
                    + margin_frac.num * (page.rect.x1 - page.rect.x0)
            /\ 254 * header_margin_cm.den * page.words[i].y0
                 >= 254 * header_margin_cm.den * page.rect.y0
                    + 7200 * header_margin_cm.num }

WordValue(i) == IntOfDigits(CurrentPage.words[i].text, 0)

RECURSIVE SumTopBottom(_)
SumTopBottom(S) ==
    IF S = {} THEN 0
    ELSE LET i == CHOOSE x \in S : TRUE
         IN  CurrentPage.words[i].y0 + CurrentPage.words[i].y1
             + SumTopBottom(S \ {i})

\* C7: the detected line numbers are exactly the distinct values of the
\* qualifying words, each once, with y_center the average of the vertical
\* centers of the words of that value, sorted ascending by y_center; the list
\* is empty exactly when no word qualifies.
C7_MarginDetection ==
    pc \in {"margin_detected", "margin_resolved"} =>
        /\ {line_numbers[k].line_number : k \in 1..Len(line_numbers)}
             = {WordValue(i) : i \in QualifyingWords}
        /\ \A k \in 1..Len(line_numbers), m \in 1..Len(line_numbers) :
              /\ k # m => line_numbers[k].line_number # line_numbers[m].line_number
              /\ k < m => RLe(line_numbers[k].y_center, line_numbers[m].y_center)
        /\ \A k \in 1..Len(line_numbers) :
              LET same == {i \in QualifyingWords :
                             WordValue(i) = line_numbers[k].line_number}
              IN  line_numbers[k].y_center.num * 2 * Cardinality(same)
                     = SumTopBottom(same) * line_numbers[k].y_center.den
        /\ (line_numbers = <<>>) <=> (QualifyingWords = {})

\* a duplicated number merged, a second number, and a word that is left out
C7_Witness ==
    /\ pc = "margin_detected"
    /\ Len(CurrentPage.words) = 3
    /\ Cardinality(QualifyingWords) = 2
    /\ Len(line_numbers) = 1
    /\ line_numbers[1].y_center.den = 4
    /\ \E i \in QualifyingWords, j \in QualifyingWords :
          CurrentPage.words[i].text # CurrentPage.words[j].text

-----------------------------------------------------------------------------
(* Body line indexing and fallback resolution on one page *)

MaxLines == 2        \* structural lines of a page, over all its blocks
MaxBlocks == 2       \* blocks of a page

HeaderBox == Rect(10, 43, 110, 53)      \* top edge inside the header band
UpperBox == Rect(10, 50, 110, 60)
OverlapBox == Rect(10, 55, 110, 75)     \* overlaps UpperBox, starts lower
SpanBoxA == Rect(300, 52, 350, 60)
SpanBoxB == Rect(360, 50, 400, 58)      \* union with SpanBoxA: (300, 50, 400, 60)

LineBoxes == {None, Some(HeaderBox), Some(UpperBox), Some(OverlapBox)}

SpanLists ==
    { <<>>,
      <<Span(<<" ">>, Some(SpanBoxA))>>,
      <<Span(<<"a">>, Some(SpanBoxA)), Span(<<"b", " ">>, Some(SpanBoxB))>>,
      <<Span(<<" ", "a">>, None)>> }

LineSamples == { TextLine(b, sp) : b \in LineBoxes, sp \in SpanLists }

\* annotation rectangles: center above every line; inside UpperBox only just
\* below its top; inside UpperBox and OverlapBox, nearer to the top edge of
\* OverlapBox; below every line
BodyAnnotRects ==
    { Rect(10, 45, 110, 47), Rect(10, 51, 110, 52),
      Rect(10, 56, 110, 58), Rect(10, 85, 110, 95) }

InitBody ==
    /\ pc = "body_start"
    /\ \E ls \in SeqsUpTo(LineSamples, MaxLines) :
         \E b \in 0..MaxBlocks :
           \E o \in Owners(Len(ls), b) :
             doc = Some(<<[rect |-> ShiftedPageRect, words |-> <<>>,
                           text_dict |->
                               [blocks |-> [g \in 1..b |-> Block(GroupOf(ls, o, g))]],
                           annots |-> <<>>]>>)
    /\ Idle

\* get_page_body_lines applied to the page
BodyIndex ==
    /\ pc = "body_start"
    /\ body_lines' = Some(get_page_body_lines(CurrentPage, header_margin_cm))
    /\ body_runs' = body_runs + 1
    /\ pc' = "body_indexed"
    /\ UNCHANGED <<input_exists, doc, header_margin_cm, margin_frac, page_index,
                   annot_pos, line_numbers, use_margin_numbers, cur_annot,
                   annot_type, highlighted_text, comment, line_number, entry,
                   lines_out, file, file0, written>>

\* get_fallback_line_index_for_annotation applied to an annotation
BodyResolve ==
    /\ pc = "body_indexed"
    /\ \E r \in BodyAnnotRects :
         LET a == Annot("Highlight", r, Covered(<<>>), None)
         IN  /\ cur_annot' = Some(a)
             /\ line_number' = get_fallback_line_index_for_annotation(a, body_lines[1])
    /\ pc' = "body_resolved"
    /\ UNCHANGED <<input_exists, doc, header_margin_cm, margin_frac, page_index,
                   annot_pos, line_numbers, body_lines, use_margin_numbers,
                   body_runs, annot_type, highlighted_text, comment, entry,
                   lines_out, file, file0, written>>

NextBody == BodyIndex \/ BodyResolve

SpecBody == InitBody /\ [][NextBody]_vars

\* twice the vertical center of the current annotation
Center2 == cur_annot[1].rect.y0 + cur_annot[1].rect.y1

Abs(x) == IF x < 0 THEN -x ELSE x
Min2(x, y) == IF x <= y THEN x ELSE y

\* the center lies in [top, bottom] of the i-th body line
Within(i) ==
    /\ 2 * body_lines[1][i].rect.y0 <= Center2
    /\ Center2 <= 2 * body_lines[1][i].rect.y1

\* twice the distance from the center to the nearer edge of the i-th body line
NearEdge2(i) ==
    Min2(Abs(Center2 - 2 * body_lines[1][i].rect.y0),
         Abs(Center2 - 2 * body_lines[1][i].rect.y1))

\* C6: fallback resolution returns the index of the first body line whose
\* [top, bottom] contains the annotation's vertical center, whatever the
\* distances; if none contains it, the index of the first line at minimum
\* distance from the center to its nearer edge; None only for the empty list.
C6_FallbackResolution ==
    pc = "body_resolved" =>
        LET n == Len(body_lines[1])
        IN  IF n = 0 THEN line_number = None
            ELSE IF \E i \in 1..n : Within(i)
            THEN \E i \in 1..n :
                    /\ Within(i)
                    /\ \A j \in 1..(i - 1) : ~ Within(j)
                    /\ line_number = Some(body_lines[1][i].index)
            ELSE \E i \in 1..n :
                    /\ \A j \in 1..n : NearEdge2(i) <= NearEdge2(j)
                    /\ \A j \in 1..(i - 1) : NearEdge2(i) < NearEdge2(j)
                    /\ line_number = Some(body_lines[1][i].index)

\* the center lies in the first line although an edge of the second is nearer
C6_Witness ==
    /\ pc = "body_resolved"
    /\ Len(body_lines[1]) = 2
    /\ Within(1)
    /\ NearEdge2(2) < NearEdge2(1)
    /\ line_number = Some(1)

\* the structural lines of the page, across blocks, in document order
StructuralLines == FlattenBlocks(CurrentPage.text_dict.blocks)

\* the rectangle a structural line is given: its own, else the hull of the
\* rectangles of its spans; the empty set when it has none
UsableRects(l) ==
    IF l.bbox # None THEN {l.bbox[1]}
    ELSE LET bs == {l.spans[i].bbox[1] :
                      i \in {j \in 1..Len(l.spans) : l.spans[j].bbox # None}}
         IN  IF bs = {} THEN {}
             ELSE {[x0 |-> CHOOSE v \in {b.x0 : b \in bs} : \A b \in bs : v <= b.x0,
                    y0 |-> CHOOSE v \in {b.y0 : b \in bs} : \A b \in bs : v <= b.y0,
                    x1 |-> CHOOSE v \in {b.x1 : b \in bs} : \A b \in bs : v >= b.x1,
                    y1 |-> CHOOSE v \in {b.y1 : b \in bs} : \A b \in bs : v >= b.y1]}

\* some character of the spans of the line is not whitespace
HasText(l) ==
    \E i \in 1..Len(l.spans) :
        \E k \in 1..Len(l.spans[i].text) : l.spans[i].text[k] \notin Whitespace

\* the structural lines that are body lines
BodyLineSources ==
    { i \in 1..Len(StructuralLines) :
        /\ HasText(StructuralLines[i])
        /\ \E r \in UsableRects(StructuralLines[i]) :
              254 * header_margin_cm.den * r.y0
                 >= 254 * header_margin_cm.den * CurrentPage.rect.y0
                    + 7200 * header_margin_cm.num }

\* C10: the body lines are exactly the structural lines with non-empty
\* trimmed text and a usable rectangle whose top edge is at or below the
\* header cutoff, across blocks, ordered by top edge then left edge, and their
\* index values are 1..n in that order.
C10_BodyLineIndexing ==
    pc \in {"body_indexed", "body_resolved"} =>
        LET bl == body_lines[1]
        IN  /\ \A k \in 1..Len(bl) : bl[k].index = k
            /\ \A k \in 1..(Len(bl) - 1) :
                  \/ bl[k].rect.y0 < bl[k + 1].rect.y0
                  \/ /\ bl[k].rect.y0 = bl[k + 1].rect.y0
                     /\ bl[k].rect.x0 <= bl[k + 1].rect.x0
            /\ \E f \in [1..Len(bl) -> BodyLineSources] :
                  /\ \A k \in 1..Len(bl), m \in 1..Len(bl) : k # m => f[k] # f[m]
                  /\ \A i \in BodyLineSources : \E k \in 1..Len(bl) : f[k] = i
                  /\ \A k \in 1..Len(bl) :
                        /\ bl[k].rect \in UsableRects(StructuralLines[f[k]])
                        /\ bl[k].text = LineText(StructuralLines[f[k]])

\* two body lines from different blocks, at the same height, out of order in
\* the page structure, one of them with a rectangle computed from its spans
C10_Witness ==
    /\ pc = "body_indexed"
    /\ Len(CurrentPage.text_dict.blocks) = 2
    /\ Len(CurrentPage.text_dict.blocks[1].lines) = 1
    /\ Len(CurrentPage.text_dict.blocks[2].lines) = 1
    /\ Len(body_lines[1]) = 2
    /\ StructuralLines[1].bbox = None
    /\ body_lines[1][1].rect = UpperBox
    /\ body_lines[1][2].rect = Rect(300, 50, 400, 60)

\* a header line dropped ahead of a body line: the numbering still starts at 1
C10_WitnessHeader ==
    /\ pc = "body_indexed"
    /\ Len(StructuralLines) = 2
    /\ StructuralLines[1].bbox = Some(HeaderBox)
    /\ HasText(StructuralLines[1])
    /\ Len(body_lines[1]) = 1

-----------------------------------------------------------------------------
(* Normalisation and formatting of one annotation *)

MaxTextLen == 4      \* characters of the text covered by an annotation

TextChars == {"a", " ", "\n", "\""}

TypeNames == {"Highlight", "Underline", "Squiggly", "StrikeOut", "Text", "FreeText"}

CoveredSamples ==
    {Covered(t) : t \in SeqsUpTo(TextChars, MaxTextLen)}
    \cup {Covered(<<"a", "\r", "\n", "b">>), Covered(<<"\t", "a", "\r">>),
          Failed(<<"b", "a", "d">>), Failed(<<"n", "o", " ", "\"", "x", "\"">>)}

ContentSamples ==
    { None, Some(<<>>), Some(<<"c">>), Some(<<" ", "c", " ">>), Some(<<" ", " ">>),
      Some(<<"a", "\n", "b">>), Some(<<"a", " ", " ", "b">>),
      Some(<<"\"", "q", "\"">>) }

PageNumberSamples == {1, 12}
LineIdSamples == {None, Some(0), Some(7), Some(42)}

InitFormat ==
    /\ pc = "format_start"
    /\ doc = None
    /\ Idle

\* the body of the annotation loop applied to one annotation
FormatOne ==
    /\ pc = "format_start"
    /\ \E t \in TypeNames, c \in CoveredSamples, n \in ContentSamples,
          p \in PageNumberSamples, ln \in LineIdSamples :
         /\ HandleAnnot(Annot(t, Rect(0, 0, 0, 0), c, n), p, ln)
         /\ page_index' = p - 1
    /\ pc' = "format_done"
    /\ UNCHANGED <<input_exists, doc, header_margin_cm, margin_frac, annot_pos,
                   line_numbers, body_lines, use_margin_numbers, body_runs,
                   file, file0, written>>

NextFormat == FormatOne

SpecFormat == InitFormat /\ [][NextFormat]_vars

Formatted == pc = "format_done" /\ cur_annot[1].type \in QualifyingKinds

\* no CR or LF, no two adjacent whitespace characters, no whitespace at either
\* end, no double quote
IsNormalized(t) ==
    /\ \A i \in 1..Len(t) : t[i] \notin {"\r", "\n", "\""}
    /\ \A i \in 1..(Len(t) - 1) : ~ (t[i] \in Whitespace /\ t[i + 1] \in Whitespace)
    /\ t # <<>> => (t[1] \notin Whitespace /\ t[Len(t)] \notin Whitespace)

\* C3: in every entry the text segment and the comment segment are
\* normalised (no CR or LF, no whitespace run, no whitespace at the ends, no
\* double quote from the input), so that the entry is one line of the file.
C3_BothSegmentsNormalized ==
    Formatted =>
        /\ IsNormalized(highlighted_text)
        /\ IsNormalized(comment)
        /\ \A i \in 1..Len(entry) : entry[i] \notin {"\r", "\n"}

\* C3, the part that holds: the text segment is normalised, and neither
\* segment keeps a double quote or whitespace at its ends.
C3_TextSegmentNormalized ==
    Formatted =>
        /\ IsNormalized(highlighted_text)
        /\ \A i \in 1..Len(comment) : comment[i] # "\""
        /\ comment # <<>> =>
              (comment[1] \notin Whitespace /\ comment[Len(comment)] \notin Whitespace)

\* the decimal rendering of the page numbers and line identifiers in use
Decimal(n) ==
    CASE n = 0 -> <<"0">> [] n = 1 -> <<"1">> [] n = 7 -> <<"7">>
      [] n = 12 -> <<"1", "2">> [] n = 42 -> <<"4", "2">>

\* the text of the annotation, trimmed, is empty
CoveredIsBlank ==
    /\ cur_annot[1].covered.ok
    /\ \A i \in 1..Len(cur_annot[1].covered.text) :
          cur_annot[1].covered.text[i] \in Whitespace

C3_Witness ==
    /\ Formatted
    /\ cur_annot[1].covered.ok
    /\ cur_annot[1].covered.text = <<"a", "\n", " ", "\"">>
    /\ highlighted_text = <<"a", " ", "'">>

====
